---- MODULE Spec2Model ----
(***************************************************************************)
(* A model of pubs' Repository (src/pubs/repo.py): the citekey index, the  *)
(* content store behind the databroker, and the operations pull_paper,     *)
(* push_paper, remove_paper, rename_paper, push_doc, unique_citekey and    *)
(* get_tags.                                                               *)
(*                                                                         *)
(* Strings are sequences of character codes.  A call is one atomic step:   *)
(* the repository is used by a single thread.  The operations are          *)
(* operators from a repository state (a record s) and the call's inputs    *)
(* to an outcome [s, exc, evs, paper]; the actions apply them.  The        *)
(* course of a call, statement by statement, is given by the operators     *)
(* push_steps, remove_steps and rename_steps.                              *)
(***************************************************************************)
EXTENDS Integers, Sequences, FiniteSets, TLC

VARIABLES
    bib,        \* content store: citekey -> Some(bibdata), or None when no bibdata file
    meta,       \* content store: citekey -> Some(metadata), or None when no metadata file
    docs,       \* content store: the document files that exist (paths)
    notes,      \* content store: the citekeys that have a note file
    _citekeys,  \* Repository._citekeys: None until first access, then Some(set)
    last,       \* the outcome of the last call: what the caller observed
    steps       \* the number of steps taken so far

vars == <<bib, meta, docs, notes, _citekeys, last, steps>>

\* Python's None, and a value that is not None
None == <<>>
Some(x) == <<x>>
Get(o) == o[1]

----------------------------------------------------------------------------
(* Bounds of the model. *)

\* a run changes the repository or the store at most MaxSteps times; calls
\* that change nothing are not counted
MaxSteps == 4
\* the pure-function specification fills the index with up to MaxTaken
\* of the keys base, base+a, base+b, ...
MaxTaken == 28

----------------------------------------------------------------------------
(* Citekeys. *)

\* ord('a')
OrdA == 97
\* the number of letters a..z
Letters == 26
\* the path separator '/'
Slash == 47

\* "s", "sa": the valid citekeys of the model; "/": the malformed one
KeyS == <<115>>
KeySa == <<115, 97>>
KeyT == <<116>>
Keys == {KeyS, KeySa}
BadKeys == {<<Slash>>}
AllKeys == Keys \cup BadKeys

\* bibstruct.check_citekey: TRUE when the key is accepted
CheckCitekey(citekey) ==
    /\ citekey # <<>>
    /\ \A i \in 1..Len(citekey) : citekey[i] # Slash

\* _base27 dividing n, not n - 1, by the number of letters
RECURSIVE base27_div(_)
base27_div(n) ==
    IF n # 0
    THEN base27_div(n \div Letters) \o <<OrdA + ((n - 1) % Letters)>>
    ELSE <<>>

RECURSIVE _base27(_)
_base27(n) ==
    IF n # 0
    THEN _base27((n - 1) \div Letters) \o <<OrdA + ((n - 1) % Letters)>>
    ELSE <<>>

----------------------------------------------------------------------------
(* Papers, documents, events. *)

\* the bibdata a caller gives a new paper with this citekey, and its tags
BibOf(citekey) == IF citekey = KeyS THEN "b1" ELSE "b2"
TagsOf(bibdata) == IF bibdata = "b1" THEN {} ELSE {"a", "b"}

\* a document inside the managed documents area is named after a citekey
DocPath(citekey) == [managed |-> TRUE, name |-> citekey]
\* the one document outside the managed area
ExtDoc == [managed |-> FALSE, name |-> <<120>>]

\* Paper(bibdata, citekey, metadata); docpath and added are views of metadata
Paper(bibdata, citekey, metadata) ==
    [citekey |-> citekey, bibdata |-> bibdata, metadata |-> metadata]

AddEvent(citekey) == [type |-> "Add", citekey |-> citekey]
RemoveEvent(citekey) == [type |-> "Remove", citekey |-> citekey]
RenameEvent(paper, old_citekey) ==
    [type |-> "Rename", citekey |-> paper.citekey, old_citekey |-> old_citekey]

\* The points at which a call's I/O can fail (at most one per call), io:
\*   "meta_write"  push_metadata raises IOError
\*   "meta_read"   pull_metadata raises IOError in remove_paper
\*   "doc_rm"      remove_doc raises IOError
\*   "note_rm"     remove_note raises IOError
\*   "note_mv"     rename_note raises IOError

----------------------------------------------------------------------------
(* The content store (DataCache), by citekey. *)

Exists(s, citekey, meta_check) ==
    /\ citekey \in DOMAIN s.bib
    /\ s.bib[citekey] # None
    /\ meta_check => s.meta[citekey] # None

\* databroker.citekeys(): the full scan
Scan(s) == {k \in DOMAIN s.bib : s.bib[k] # None /\ s.meta[k] # None}

pull_bibdata(s, citekey) == Get(s.bib[citekey])
pull_metadata(s, citekey) == Get(s.meta[citekey])
push_bibdata(s, citekey, bibdata) == [s EXCEPT !.bib[citekey] = Some(bibdata)]
push_metadata(s, citekey, metadata) == [s EXCEPT !.meta[citekey] = Some(metadata)]
\* databroker.remove(citekey)
Remove(s, citekey) == [s EXCEPT !.bib[citekey] = None, !.meta[citekey] = None]

in_docsdir(docpath) == docpath # None /\ Get(docpath).managed

\* remove_doc(docpath, silent=True), remove_note(citekey, silent=True)
RemoveDoc(s, docpath) == [s EXCEPT !.docs = @ \ {Get(d) : d \in {docpath} \ {None}}]
RemoveNote(s, citekey) == [s EXCEPT !.notes = @ \ {citekey}]

\* rename_doc(docpath, new_citekey): the file moves to the new citekey's name
RenameDoc(s, docpath, new_citekey) ==
    [s EXCEPT !.docs = (@ \ {Get(docpath)}) \cup {DocPath(new_citekey)}]

\* rename_note(old_citekey, new_citekey)
RenameNote(s, old_citekey, new_citekey) ==
    [s EXCEPT !.notes = (@ \ {old_citekey}) \cup {new_citekey}]

\* content.system_path: the paths of the model are absolute already
system_path(docfile) == docfile

----------------------------------------------------------------------------
(* Repository. *)

\* the state the operations work on
Here == [bib |-> bib, meta |-> meta, docs |-> docs, notes |-> notes, idx |-> _citekeys]

\* Repository.citekeys: loads the index on first access
Citekeys(s) == IF s.idx = None THEN [s EXCEPT !.idx = Some(Scan(s))] ELSE s
\* the set self.citekeys returns
Index(s) == Get(Citekeys(s).idx)

Outcome(s, exc, evs, paper) == [s |-> s, exc |-> exc, evs |-> evs, paper |-> paper]

\* pull_paper testing the bibdata alone (meta_check=False)
pull_paper_nometa(s, citekey) ==
    IF ~Exists(s, citekey, FALSE) THEN Outcome(s, "InvalidReference", <<>>, None)
    ELSE IF s.meta[citekey] = None THEN Outcome(s, "IOError", <<>>, None)
    ELSE Outcome(s, "none", <<>>,
                 Some(Paper(pull_bibdata(s, citekey), citekey, pull_metadata(s, citekey))))

pull_paper(s, citekey) ==
    IF Exists(s, citekey, TRUE)
    THEN Outcome(s, "none", <<>>,
                 Some(Paper(pull_bibdata(s, citekey), citekey, pull_metadata(s, citekey))))
    ELSE Outcome(s, "InvalidReference", <<>>, None)

\* the collision test requiring the metadata too (meta_check=True)
Collides_metacheck(s, citekey, overwrite) ==
    (~overwrite) /\ (Exists(s, citekey, TRUE) \/ citekey \in Index(s))

\* (not overwrite) and (exists(citekey, meta_check=False) or (citekey in self))
Collides(s, citekey, overwrite) ==
    (~overwrite) /\ (Exists(s, citekey, FALSE) \/ citekey \in Index(s))

\* the state after the test: 'citekey in self' loads the index, and is
\* evaluated only when overwrite is false and the store has no bibdata
Tested(s, citekey, overwrite) ==
    IF (~overwrite) /\ ~Exists(s, citekey, FALSE) THEN Citekeys(s) ELSE s

\* the timestamp set on every push
Stamped_always(paper, now) == [paper EXCEPT !.metadata.added = Some(now)]

\* if not paper.added: paper.added = datetime.now()
Stamped(paper, now) ==
    IF paper.metadata.added = None
    THEN [paper EXCEPT !.metadata.added = Some(now)]
    ELSE paper

\* the metadata write forgotten
Written_bibonly(s, paper) == push_bibdata(s, paper.citekey, paper.bibdata)

\* push_bibdata, then push_metadata
Written(s, paper) ==
    push_metadata(push_bibdata(s, paper.citekey, paper.bibdata),
                  paper.citekey, paper.metadata)

\* the index left as it is
AddCitekey_forgotten(s, citekey) == Citekeys(s)

\* self.citekeys.add(citekey)
AddCitekey(s, citekey) == [s EXCEPT !.idx = Some(Index(s) \cup {citekey})]

\* push_paper writing the metadata first: its failure leaves no bibdata
push_paper_metafirst(s, paper, overwrite, event, now, io) ==
    LET k == paper.citekey
        s1 == Tested(s, k, overwrite)
        p1 == Stamped(paper, now)
    IN  IF ~CheckCitekey(k) THEN Outcome(s, "InvalidCitekey", <<>>, Some(paper))
        ELSE IF Collides(s, k, overwrite)
        THEN Outcome(s1, "CiteKeyCollision", <<>>, Some(paper))
        ELSE IF io = "meta_write"
        THEN Outcome(s1, "IOError", <<>>, Some(p1))
        ELSE Outcome(AddCitekey(Written(s1, p1), k), "none",
                     IF event THEN <<AddEvent(k)>> ELSE <<>>, Some(p1))

push_paper(s, paper, overwrite, event, now, io) ==
    LET k == paper.citekey
        s1 == Tested(s, k, overwrite)
        p1 == Stamped(paper, now)
    IN  IF ~CheckCitekey(k) THEN Outcome(s, "InvalidCitekey", <<>>, Some(paper))
        ELSE IF Collides(s, k, overwrite)
        THEN Outcome(s1, "CiteKeyCollision", <<>>, Some(paper))
        ELSE IF io = "meta_write"
        THEN Outcome(push_bibdata(s1, k, p1.bibdata), "IOError", <<>>, Some(p1))
        ELSE Outcome(AddCitekey(Written(s1, p1), k), "none",
                     IF event THEN <<AddEvent(k)>> ELSE <<>>, Some(p1))

\* One entry of the course of a call: what was done, and the repository
\* state s right after it (for a notification: the state the listeners see).
Step(what, s) == [what |-> what, s |-> s]
\* the state after the steps tr of a call made in s
After(s, tr) == IF tr = <<>> THEN s ELSE tr[Len(tr)].s

\* the steps at which a call ends by raising
Exceptions == {"InvalidCitekey", "CiteKeyCollision", "IOError", "KeyError", "InvalidReference"}
Raised(tr) == tr # <<>> /\ tr[Len(tr)].what \in Exceptions

\* the course of push_paper, in the order of its statements (lines 68-78)
push_steps(s, paper, overwrite, event, now, io) ==
    LET k == paper.citekey
        s1 == Tested(s, k, overwrite)
        p1 == Stamped(paper, now)
        b == push_bibdata(s1, k, p1.bibdata)
        m == push_metadata(b, k, p1.metadata)
        a == AddCitekey(m, k)
    IN  IF ~CheckCitekey(k) THEN <<Step("InvalidCitekey", s)>>
        ELSE IF Collides(s, k, overwrite) THEN <<Step("CiteKeyCollision", s1)>>
        ELSE IF io = "meta_write" THEN <<Step("push_bibdata", b), Step("IOError", b)>>
        ELSE <<Step("push_bibdata", b), Step("push_metadata", m), Step("citekeys.add", a)>>
             \o (IF event THEN <<Step("send Add", a)>> ELSE <<>>)

\* remove_paper leaving the bibdata and metadata files
remove_paper_keepfiles(s, citekey, remove_doc, event, io) ==
    LET evs == IF event THEN <<RemoveEvent(citekey)>> ELSE <<>>
        s2 == Citekeys(s)
    IN  IF citekey \notin Index(s2) THEN Outcome(s2, "KeyError", evs, None)
        ELSE Outcome([s2 EXCEPT !.idx = Some(Index(s2) \ {citekey})], "none", evs, None)

\* the try block of remove_paper (lines 87-90): an IOError anywhere in it
\* ends it
Cleanup(s, citekey, io) ==
    IF s.meta[citekey] = None \/ io = "meta_read" THEN Outcome(s, "IOError", <<>>, None)
    ELSE IF io = "doc_rm" THEN Outcome(s, "IOError", <<>>, None)
    ELSE LET sd == RemoveDoc(s, pull_metadata(s, citekey).docfile)
         IN  IF io = "note_rm" THEN Outcome(sd, "IOError", <<>>, None)
             ELSE Outcome(RemoveNote(sd, citekey), "none", <<>>, None)

\* the IOError of the try block let through
Caught_reraised(r) == r

\* except IOError: pass
Caught(r) == [r EXCEPT !.exc = "none"]

remove_paper(s, citekey, remove_doc, event, io) ==
    LET evs == IF event THEN <<RemoveEvent(citekey)>> ELSE <<>>
        cleaned == IF remove_doc THEN Caught(Cleanup(s, citekey, io))
                   ELSE Outcome(s, "none", <<>>, None)
        s2 == Citekeys(cleaned.s)
    IN  IF cleaned.exc # "none" THEN Outcome(cleaned.s, cleaned.exc, evs, None)
        ELSE IF citekey \notin Index(s2) THEN Outcome(s2, "KeyError", evs, None)
        ELSE Outcome(Remove([s2 EXCEPT !.idx = Some(Index(s2) \ {citekey})], citekey),
                     "none", evs, None)

\* remove_paper notifying after the removal
remove_steps_sendlast(s, citekey, remove_doc, event, io) ==
    LET cleans == remove_doc /\ s.meta[citekey] # None /\ io # "meta_read" /\ io # "doc_rm"
        sd == RemoveDoc(s, pull_metadata(s, citekey).docfile)
        cleaned == IF ~cleans THEN <<>>
                   ELSE IF io = "note_rm" THEN <<Step("remove_doc", sd)>>
                   ELSE <<Step("remove_doc", sd), Step("remove_note", RemoveNote(sd, citekey))>>
        s2 == Citekeys(After(s, cleaned))
        s3 == [s2 EXCEPT !.idx = Some(Index(s2) \ {citekey})]
        removed == IF citekey \notin Index(s2) THEN <<Step("KeyError", s2)>>
                   ELSE <<Step("citekeys.remove", s3), Step("remove", Remove(s3, citekey))>>
        sent == IF event THEN <<Step("send Remove", After(s, cleaned \o removed))>> ELSE <<>>
    IN  cleaned \o removed \o sent

\* the course of remove_paper, in the order of its statements (lines 83-96)
remove_steps(s, citekey, remove_doc, event, io) ==
    LET sent == IF event THEN <<Step("send Remove", s)>> ELSE <<>>
        \* the try block: an IOError anywhere in it ends it
        cleans == remove_doc /\ s.meta[citekey] # None /\ io # "meta_read" /\ io # "doc_rm"
        sd == RemoveDoc(s, pull_metadata(s, citekey).docfile)
        cleaned == IF ~cleans THEN <<>>
                   ELSE IF io = "note_rm" THEN <<Step("remove_doc", sd)>>
                   ELSE <<Step("remove_doc", sd), Step("remove_note", RemoveNote(sd, citekey))>>
        s2 == Citekeys(After(s, cleaned))
        s3 == [s2 EXCEPT !.idx = Some(Index(s2) \ {citekey})]
        removed == IF citekey \notin Index(s2) THEN <<Step("KeyError", s2)>>
                   ELSE <<Step("citekeys.remove", s3), Step("remove", Remove(s3, citekey))>>
    IN  sent \o cleaned \o removed

\* the paper's docpath left naming the old citekey
Relocated_olddoc(paper, new) == paper

\* paper.docpath = rename_doc(paper.docpath, new_citekey), for a managed document
Relocated(paper, new) ==
    IF in_docsdir(paper.metadata.docfile)
    THEN [paper EXCEPT !.metadata.docfile = Some(DocPath(new))]
    ELSE paper

\* rename_paper without the case of an unchanged citekey
rename_paper_nosame(s, paper, new_citekey, old_citekey, now, io) ==
    LET old == IF old_citekey = None THEN paper.citekey ELSE Get(old_citekey)
        new == IF new_citekey = None THEN paper.citekey ELSE Get(new_citekey)
        p0 == [paper EXCEPT !.citekey = new]
    IN  LET s1 == Citekeys(s)
            docpath == p0.metadata.docfile
            moves == in_docsdir(docpath)
            s2 == IF moves THEN RenameDoc(s1, docpath, new) ELSE s1
            p1 == Relocated(p0, new)
            s3 == IF old \in s2.notes /\ io # "note_mv" THEN RenameNote(s2, old, new) ELSE s2
            pushed == push_paper(s3, p1, FALSE, FALSE, now, io)
            removed == remove_paper(pushed.s, old, TRUE, FALSE, io)
        IN  IF new \in Index(s1) THEN Outcome(s1, "CiteKeyCollision", <<>>, Some(p0))
            ELSE IF moves /\ Get(docpath) \notin s1.docs
            THEN Outcome(s1, "IOError", <<>>, Some(p0))
            ELSE IF pushed.exc # "none" THEN pushed
            ELSE IF removed.exc # "none"
            THEN Outcome(removed.s, removed.exc, <<>>, pushed.paper)
            ELSE Outcome(removed.s, "none", <<RenameEvent(Get(pushed.paper), old)>>,
                         pushed.paper)

rename_paper(s, paper, new_citekey, old_citekey, now, io) ==
    LET old == IF old_citekey = None THEN paper.citekey ELSE Get(old_citekey)
        new == IF new_citekey = None THEN paper.citekey ELSE Get(new_citekey)
        p0 == [paper EXCEPT !.citekey = new]
    IN  IF old = new THEN push_paper(s, p0, TRUE, FALSE, now, io)
        ELSE
        LET s1 == Citekeys(s)
            docpath == p0.metadata.docfile
            moves == in_docsdir(docpath)
            s2 == IF moves THEN RenameDoc(s1, docpath, new) ELSE s1
            p1 == Relocated(p0, new)
            s3 == IF old \in s2.notes /\ io # "note_mv" THEN RenameNote(s2, old, new) ELSE s2
            pushed == push_paper(s3, p1, FALSE, FALSE, now, io)
            removed == remove_paper(pushed.s, old, TRUE, FALSE, io)
        IN  IF new \in Index(s1) THEN Outcome(s1, "CiteKeyCollision", <<>>, Some(p0))
            ELSE IF moves /\ Get(docpath) \notin s1.docs
            THEN Outcome(s1, "IOError", <<>>, Some(p0))
            ELSE IF pushed.exc # "none" THEN pushed
            ELSE IF removed.exc # "none"
            THEN Outcome(removed.s, removed.exc, <<>>, pushed.paper)
            ELSE Outcome(removed.s, "none", <<RenameEvent(Get(pushed.paper), old)>>,
                         pushed.paper)

\* the old citekey removed before the paper is pushed at the new one
Replaced_removefirst(s, paper, old, now, io) ==
    LET removed == remove_steps(s, old, TRUE, FALSE, io)
    IN  IF Raised(removed) THEN removed
        ELSE removed \o push_steps(After(s, removed), paper, FALSE, FALSE, now, io)

\* push_paper(paper, event=False), then remove_paper(old_citekey, event=False)
Replaced(s, paper, old, now, io) ==
    LET pushed == push_steps(s, paper, FALSE, FALSE, now, io)
    IN  IF Raised(pushed) THEN pushed
        ELSE pushed \o remove_steps(After(s, pushed), old, TRUE, FALSE, io)

\* the course of rename_paper, in the order of its statements (lines 99-126)
rename_steps(s, paper, new_citekey, old_citekey, now, io) ==
    LET old == IF old_citekey = None THEN paper.citekey ELSE Get(old_citekey)
        new == IF new_citekey = None THEN paper.citekey ELSE Get(new_citekey)
        p0 == [paper EXCEPT !.citekey = new]
        s1 == Citekeys(s)
        docpath == p0.metadata.docfile
        moves == in_docsdir(docpath)
        moved == IF moves THEN <<Step("rename_doc", RenameDoc(s1, docpath, new))>> ELSE <<>>
        s2 == After(s1, moved)
        noted == IF old \in s2.notes /\ io # "note_mv"
                 THEN <<Step("rename_note", RenameNote(s2, old, new))>> ELSE <<>>
        s3 == After(s2, noted)
        replaced == Replaced(s3, Relocated(p0, new), old, now, io)
    IN  IF old = new THEN push_steps(s, p0, TRUE, FALSE, now, io)
        ELSE IF new \in Index(s1) THEN <<Step("CiteKeyCollision", s1)>>
        ELSE IF moves /\ Get(docpath) \notin s1.docs THEN <<Step("IOError", s1)>>
        ELSE IF Raised(replaced) THEN moved \o noted \o replaced
        ELSE moved \o noted \o replaced \o <<Step("send Rename", After(s3, replaced))>>

\* push_doc copying the document before it pulls the paper
push_doc_copyfirst(s, citekey, docfile, copy, now, io) ==
    LET pulled == pull_paper(s, citekey)
        s1 == IF copy /\ docfile \in s.docs
              THEN [s EXCEPT !.docs = @ \cup {DocPath(citekey)}] ELSE s
        path == IF copy THEN DocPath(citekey) ELSE system_path(docfile)
        p == [Get(pulled.paper) EXCEPT !.metadata.docfile = Some(path)]
    IN  IF copy /\ docfile \notin s.docs THEN Outcome(s, "IOError", <<>>, None)
        ELSE IF pulled.exc # "none" THEN Outcome(s1, pulled.exc, <<>>, None)
        ELSE push_paper(s1, p, TRUE, FALSE, now, io)

push_doc(s, citekey, docfile, copy, now, io) ==
    LET pulled == pull_paper(s, citekey)
        \* add_doc copies the file to the citekey's name in the managed area
        s1 == IF copy THEN [s EXCEPT !.docs = @ \cup {DocPath(citekey)}] ELSE s
        path == IF copy THEN DocPath(citekey) ELSE system_path(docfile)
        p == [Get(pulled.paper) EXCEPT !.metadata.docfile = Some(path)]
    IN  IF pulled.exc # "none" THEN pulled
        ELSE IF copy /\ docfile \notin s.docs THEN Outcome(s, "IOError", <<>>, None)
        ELSE push_paper(s1, p, TRUE, FALSE, now, io)

RECURSIVE unique_from(_, _, _)
unique_from(s, base_key, n) ==
    IF base_key \o _base27(n) \in Index(s)
    THEN unique_from(s, base_key, n + 1)
    ELSE base_key \o _base27(n)

\* the number of candidate keys the loop of unique_citekey tests, from n on
RECURSIVE candidates_from(_, _, _)
candidates_from(s, base_key, n) ==
    IF base_key \o _base27(n) \in Index(s)
    THEN 1 + candidates_from(s, base_key, n + 1)
    ELSE 1

\* unique_citekey putting the key it returns into the index
unique_citekey_reserving(s, base_key) ==
    LET s1 == Citekeys(s)
        key == unique_from(s1, base_key, 0)
    IN  [s |-> [s1 EXCEPT !.idx = Some(Index(s1) \cup {key})], exc |-> "none",
         evs |-> <<>>, paper |-> None, ret |-> Some(key)]

unique_citekey(s, base_key) ==
    LET s1 == Citekeys(s)
    IN  [s |-> s1, exc |-> "none", evs |-> <<>>, paper |-> None,
         ret |-> Some(unique_from(s1, base_key, 0))]

\* the tags of the last paper alone
TagsUnion_last(tags, paper) == paper.metadata.tags

\* tags = tags.union(p.tags)
TagsUnion(tags, paper) == tags \cup paper.metadata.tags

\* the loop of get_tags over all_papers(): the keys still to visit
RECURSIVE tags_from(_, _, _)
tags_from(s, keys, tags) ==
    IF keys = {} THEN tags
    ELSE LET key == CHOOSE k \in keys : TRUE
         IN  tags_from(s, keys \ {key}, TagsUnion(tags, Get(pull_paper(s, key).paper)))

get_tags(s) ==
    LET s1 == Citekeys(s)
    IN  IF \E key \in Index(s1) : pull_paper(s1, key).exc # "none"
        THEN [s |-> s1, exc |-> "InvalidReference", evs |-> <<>>, paper |-> None,
              ret |-> None]
        ELSE [s |-> s1, exc |-> "none", evs |-> <<>>, paper |-> None,
              ret |-> Some(tags_from(s1, Index(s1), {}))]

----------------------------------------------------------------------------
(* The state machine. *)

\* whether the citekey is known to the store or the index
InRepo(s, citekey) ==
    Exists(s, citekey, FALSE) \/ citekey \in Index(s)

Log(op, k, k2, pre, r, ret) ==
    [op |-> op, k |-> k, k2 |-> k2, pre |-> pre, exc |-> r.exc, evs |-> r.evs, ret |-> ret]

Apply(r, l) ==
    /\ bib' = r.s.bib
    /\ meta' = r.s.meta
    /\ docs' = r.s.docs
    /\ notes' = r.s.notes
    /\ _citekeys' = r.s.idx
    /\ last' = l
    /\ steps < MaxSteps
    /\ steps' = IF r.s = Here THEN steps ELSE steps + 1

NoKey == <<0>>
NoCall == [op |-> "init", k |-> NoKey, k2 |-> NoKey, pre |-> FALSE, exc |-> "none",
           evs |-> <<>>, ret |-> None]

\* Repository(config, create=True) on an empty directory
Init ==
    /\ bib = [k \in AllKeys |-> None]
    /\ meta = [k \in AllKeys |-> None]
    /\ docs = {ExtDoc}
    /\ notes = {}
    /\ _citekeys = None
    /\ last = NoCall
    /\ steps = 0

\* a paper a caller makes from scratch
NewPapers ==
    {Paper(BibOf(k), k, [docfile |-> None, added |-> None, tags |-> TagsOf(BibOf(k))]) :
        k \in AllKeys}

\* a paper a caller pulled
PulledPapers(s) ==
    {Get(pull_paper(s, k).paper) : k \in {c \in Keys : Exists(s, c, TRUE)}}

\* datetime.now(): the clock advances with every change
Now == steps + 1

PullPaper ==
    \E k \in AllKeys :
        \E r \in {pull_paper(Here, k)} :
            Apply(r, Log("pull_paper", k, NoKey, InRepo(Here, k), r, r.paper))

PushPaper ==
    \E paper \in NewPapers \cup PulledPapers(Here), overwrite \in BOOLEAN,
       event \in BOOLEAN, io \in {"ok", "meta_write"} :
        \* a failed write emits no event, whatever the flag
        /\ io = "ok" \/ event
        /\ \E r \in {push_paper(Here, paper, overwrite, event, Now, io)} :
               Apply(r, Log("push_paper", paper.citekey, NoKey, InRepo(Here, paper.citekey), r, None))

RemovePaper ==
    \E k \in Keys, remove_doc \in BOOLEAN, event \in BOOLEAN,
       io \in {"ok", "meta_read", "doc_rm", "note_rm"} :
        \* the I/O that can fail is done with remove_doc only
        /\ io = "ok" \/ remove_doc
        /\ \E r \in {remove_paper(Here, k, remove_doc, event, io)} :
               Apply(r, Log("remove_paper", k, NoKey, InRepo(Here, k), r, None))

RenamePaper ==
    \E paper \in PulledPapers(Here), new \in {Some(k) : k \in AllKeys} \cup {None},
       io \in {"ok", "meta_write", "note_mv"} :
        LET old == paper.citekey
            n == IF new = None THEN old ELSE Get(new)
        IN  \E r \in {rename_paper(Here, paper, new, Some(old), Now, io)} :
                Apply(r, Log("rename_paper", n, old, InRepo(Here, n), r, None))

PushDoc ==
    \E k \in Keys, copy \in BOOLEAN, io \in {"ok", "meta_write"} :
        \E r \in {push_doc(Here, k, ExtDoc, copy, Now, io)} :
            Apply(r, Log("push_doc", k, NoKey, InRepo(Here, k), r, None))

UniqueCitekey ==
    \E base_key \in {KeyS, KeyT} :
        \E r \in {unique_citekey(Here, base_key)} :
            Apply(r, Log("unique_citekey", base_key, NoKey, InRepo(Here, base_key), r, r.ret))

\* the note command writes the note file of a paper
EditNote ==
    \E k \in Keys :
        /\ Exists(Here, k, TRUE)
        /\ k \notin notes
        /\ notes' = notes \cup {k}
        /\ last' = [NoCall EXCEPT !.op = "edit_note", !.k = k]
        /\ steps < MaxSteps
        /\ steps' = steps + 1
        /\ UNCHANGED <<bib, meta, docs, _citekeys>>

\* a later run of the program: a new Repository over the same directory
Reopen ==
    /\ _citekeys # None
    /\ _citekeys' = None
    /\ last' = [NoCall EXCEPT !.op = "reopen"]
    /\ steps < MaxSteps
    /\ steps' = steps + 1
    /\ UNCHANGED <<bib, meta, docs, notes>>

GetTags ==
    \E r \in {get_tags(Here)} :
        Apply(r, Log("get_tags", NoKey, NoKey, FALSE, r, r.ret))

\* the program dies in the middle of a rename_paper, after i of its
\* steps: the files are as the steps left them, the index is lost
RenameCrash ==
    \E paper \in PulledPapers(Here), new \in Keys, io \in {"ok", "note_mv"} :
        LET old == paper.citekey
            tr == rename_steps(Here, paper, Some(new), Some(old), Now, io)
        IN  \E i \in 1..(Len(tr) - 1) :
                /\ new # old
                /\ bib' = tr[i].s.bib
                /\ meta' = tr[i].s.meta
                /\ docs' = tr[i].s.docs
                /\ notes' = tr[i].s.notes
                /\ _citekeys' = None
                /\ last' = [NoCall EXCEPT !.op = "crash", !.k = new, !.k2 = old]
                /\ steps < MaxSteps
                /\ steps' = steps + 1

Next ==
    \/ PullPaper
    \/ PushPaper
    \/ RemovePaper
    \/ RenamePaper
    \/ PushDoc
    \/ UniqueCitekey
    \/ GetTags
    \/ EditNote
    \/ Reopen

Spec == Init /\ [][Next]_vars

\* the same with a program that can die in the middle of a rename_paper
NextCrash == Next \/ RenameCrash

SpecCrash == Init /\ [][NextCrash]_vars

----------------------------------------------------------------------------
(* unique_citekey on its own: the repository holds the papers base+seq(i)  *)
(* for the i below m, but for i = h (no gap when h = m).                   *)

TakenKeys(m, h) == {KeyS \o _base27(i) : i \in (0..(m - 1)) \ {h}}

InitUnique ==
    \E m \in 0..MaxTaken, h \in 0..MaxTaken :
        /\ h <= m
        /\ bib = [k \in TakenKeys(m, h) |-> Some("b1")]
        /\ meta = [k \in TakenKeys(m, h) |->
                      Some([docfile |-> None, added |-> Some(1), tags |-> {}])]
        /\ docs = {ExtDoc}
        /\ notes = {}
        /\ _citekeys = None
        /\ last = NoCall
        /\ steps = 0

SpecUnique == InitUnique /\ [][UniqueCitekey]_vars

(* get_tags on its own: a repository of up to three papers, each tagged   *)
(* with one of the tag sets, or half-written (bibdata without metadata).  *)

TagKeys == {KeyS, KeySa, KeyT}
TagSets == {{}, {"a", "b"}, {"b", "c"}}
Tagged(tags) == Some([docfile |-> None, added |-> Some(1), tags |-> tags])

InitTags ==
    /\ bib \in [TagKeys -> {None, Some("b1")}]
    /\ meta \in [TagKeys -> {None} \cup {Tagged(tags) : tags \in TagSets}]
    /\ \A k \in TagKeys : bib[k] = None => meta[k] = None
    /\ docs = {ExtDoc}
    /\ notes = {}
    /\ _citekeys = None
    /\ last = NoCall
    /\ steps = 0

SpecTags == InitTags /\ [][GetTags]_vars

----------------------------------------------------------------------------
(* The properties.  A property of a call is stated for every call that    *)
(* can be made in a reachable state: the outcome r of the operation on    *)
(* the state Here.  A property the code fails is stated on the step of    *)
(* the call, through the log of the call in last.                         *)

\* the papers a caller passes to push_paper
Papers == NewPapers \cup PulledPapers(Here)

\* the store holds both files of the citekey
Stored(s, citekey) == s.bib[citekey] # None /\ s.meta[citekey] # None

\* C1: a successful push_paper of a paper with a valid citekey that is not yet
\* in the repository, followed by pull_paper of that citekey, returns a paper
\* with the citekey, bibdata and metadata of the pushed paper, and the
\* citekey is in the index.
C1_PushThenPull ==
    \A paper \in Papers, overwrite \in BOOLEAN, event \in BOOLEAN :
        LET k == paper.citekey
            r == push_paper(Here, paper, overwrite, event, Now, "ok")
            back == pull_paper(r.s, k)
        IN  (CheckCitekey(k) /\ ~InRepo(Here, k) /\ r.exc = "none") =>
                /\ back.exc = "none"
                /\ Get(back.paper).citekey = k
                /\ Get(back.paper).bibdata = paper.bibdata
                /\ Get(back.paper).metadata = Get(r.paper).metadata
                /\ Get(r.paper).metadata.tags = paper.metadata.tags
                /\ Get(r.paper).metadata.docfile = paper.metadata.docfile
                /\ k \in Index(r.s)

C1_Witness ==
    /\ last.op = "push_paper" /\ last.exc = "none" /\ ~last.pre
    /\ pull_paper(Here, last.k).exc = "none"
    /\ last.k \in Index(Here)

\* C2: push_paper with overwrite=false of a paper whose citekey has bibdata in
\* the store or is in the index fails with CiteKeyCollision, leaves the index
\* and the store as they were and emits no event, also when the metadata
\* write would fail.
C2_PushCollision ==
    \A paper \in Papers, event \in BOOLEAN, io \in {"ok", "meta_write"} :
        LET k == paper.citekey
            r == push_paper(Here, paper, FALSE, event, Now, io)
        IN  (Exists(Here, k, FALSE) \/ k \in Index(Here)) =>
                /\ r.exc = "CiteKeyCollision"
                /\ r.s = Here
                /\ r.evs = <<>>

C2_Witness ==
    /\ last.op = "push_paper" /\ last.exc = "CiteKeyCollision" /\ last.pre
    /\ last.evs = <<>>

\* C3 (as claimed): remove_paper of a citekey that is neither in the index nor
\* in the store raises nothing and leaves the index and the store unchanged.
C3_RemoveAbsentIsNoOp ==
    [][(last'.op = "remove_paper" /\ ~InRepo(Here, last'.k)) =>
            /\ last'.exc = "none"
            /\ bib' = bib /\ meta' = meta /\ docs' = docs /\ notes' = notes
            /\ Index(Here)' = Index(Here)]_vars

\* C4: when remove_paper of a citekey present in the repository returns,
\* pull_paper of it fails with InvalidReference, it is not in the index, the
\* store holds neither its bibdata nor its metadata, and the entries of every
\* other citekey are as before.
C4_RemoveThenPull ==
    \A k \in Keys, remove_doc \in BOOLEAN, event \in BOOLEAN,
       io \in {"ok", "meta_read", "doc_rm", "note_rm"} :
        LET r == remove_paper(Here, k, remove_doc, event, io)
        IN  (InRepo(Here, k) /\ r.exc = "none") =>
                /\ pull_paper(r.s, k).exc = "InvalidReference"
                /\ k \notin Index(r.s)
                /\ r.s.bib[k] = None /\ r.s.meta[k] = None
                /\ \A j \in AllKeys \ {k} :
                      /\ r.s.bib[j] = bib[j] /\ r.s.meta[j] = meta[j]
                      /\ (j \in Index(r.s)) = (j \in Index(Here))

C4_Witness ==
    /\ last.op = "remove_paper" /\ last.exc = "none" /\ last.pre
    /\ ~Stored(Here, last.k)
    /\ \E j \in Keys \ {last.k} : Stored(Here, j)

\* the strings over a..z of length 0, 1 and 2
LetterCodes == OrdA..(OrdA + Letters - 1)
Suffixes ==
    {<<>>} \cup {<<a>> : a \in LetterCodes} \cup {<<a, b>> : a, b \in LetterCodes}

\* shorter first, then alphabetically
Before(t, u) ==
    \/ Len(t) < Len(u)
    \/ /\ Len(t) = Len(u)
       /\ \E i \in 1..Len(t) :
             /\ t[i] < u[i]
             /\ \A j \in 1..(i - 1) : t[j] = u[j]

\* C5: unique_citekey(base_key) returns base_key followed by the first of the
\* strings "", a, .., z, aa, ab, .. (seq(0), seq(1), ..) that gives a key not
\* in the index: base_key itself when it is free, base_key+a when only
\* base_key is taken, base_key+b when base_key and base_key+a are, base_key+aa
\* when base_key and base_key+a .. base_key+z all are.  The key returned is
\* not in the index.
C5_UniqueCitekey ==
    last.op = "unique_citekey" =>
        LET base == last.k
            key == Get(last.ret)
            suffix == SubSeq(key, Len(base) + 1, Len(key))
            taken == {t \in Suffixes : base \o t \in Index(Here)}
        IN  /\ key = base \o suffix
            /\ suffix \in Suffixes
            /\ key \notin Index(Here)
            /\ \A t \in Suffixes : Before(t, suffix) => t \in taken
            /\ taken = {} => key = base
            /\ taken = {<<>>} => key = base \o <<OrdA>>
            /\ taken = {<<>>, <<OrdA>>} => key = base \o <<OrdA + 1>>
            /\ taken = {<<>>} \cup {<<a>> : a \in LetterCodes} => key = base \o <<OrdA, OrdA>>

C5_Witness ==
    /\ last.op = "unique_citekey"
    /\ Get(last.ret) = KeyS \o <<OrdA, OrdA>>
    /\ Cardinality(Index(Here)) = Letters + 1

\* C6: when rename_paper of a paper stored under old to a different citekey
\* new that is not in the repository returns, pull_paper(new) returns the
\* paper's bibdata and metadata under the citekey new, pull_paper(old) fails
\* with InvalidReference, the index holds new and not old, and a document
\* that was in the managed area has a docpath naming new, where the file is.
C6_RenameRoundTrip ==
    \A paper \in PulledPapers(Here), new \in Keys, io \in {"ok", "meta_write", "note_mv"} :
        LET old == paper.citekey
            r == rename_paper(Here, paper, Some(new), Some(old), Now, io)
            back == pull_paper(r.s, new)
            managed == in_docsdir(paper.metadata.docfile)
        IN  (new # old /\ ~InRepo(Here, new) /\ r.exc = "none") =>
                /\ back.exc = "none"
                /\ Get(back.paper).citekey = new
                /\ Get(back.paper).bibdata = paper.bibdata
                /\ Get(back.paper).metadata.tags = paper.metadata.tags
                /\ Get(back.paper).metadata.added = paper.metadata.added
                /\ ~managed => Get(back.paper).metadata = paper.metadata
                /\ managed =>
                      /\ Get(back.paper).metadata.docfile = Some(DocPath(new))
                      /\ DocPath(new) \in r.s.docs
                /\ pull_paper(r.s, old).exc = "InvalidReference"
                /\ new \in Index(r.s)
                /\ old \notin Index(r.s)

C6_Witness ==
    /\ last.op = "rename_paper" /\ last.exc = "none" /\ last.k # last.k2 /\ ~last.pre
    /\ Stored(Here, last.k) /\ ~Stored(Here, last.k2)
    /\ meta[last.k] # None
    /\ Get(meta[last.k]).docfile = Some(DocPath(last.k))
    /\ DocPath(last.k) \in docs

\* C7 (as claimed): rename_paper to a different citekey that is in the index
\* or in the store fails with CiteKeyCollision and leaves the index, the
\* bibdata and metadata, the documents and the notes as they were, emitting
\* no event.
C7_RenameCollisionUntouched ==
    [][(last'.op = "rename_paper" /\ last'.k # last'.k2 /\ InRepo(Here, last'.k)) =>
            /\ last'.exc = "CiteKeyCollision"
            /\ bib' = bib /\ meta' = meta /\ docs' = docs /\ notes' = notes
            /\ Index(Here)' = Index(Here)
            /\ last'.evs = <<>>]_vars

\* C8: pull_paper succeeds exactly when the store holds both the bibdata and
\* the metadata of the citekey, and then returns them; otherwise it fails
\* with InvalidReference; either way the index and the store are unchanged.
C8_PullNeedsBoth ==
    \A k \in AllKeys :
        LET r == pull_paper(Here, k)
        IN  /\ (r.exc = "none") = (bib[k] # None /\ meta[k] # None)
            /\ r.exc \in {"none", "InvalidReference"}
            /\ r.exc = "none" =>
                  Get(r.paper) = Paper(Get(bib[k]), k, Get(meta[k]))
            /\ r.s = Here

C8_Witness ==
    /\ last.op = "pull_paper" /\ last.exc = "InvalidReference"
    /\ bib[last.k] # None /\ meta[last.k] = None

\* C9: once the index is loaded it is the set of the citekeys whose bibdata
\* and metadata are both in the store.
C9_IndexIsStore ==
    _citekeys # None =>
        Get(_citekeys) = {k \in DOMAIN bib : bib[k] # None /\ meta[k] # None}

\* a loaded index of one paper, after a push of the other citekey whose
\* metadata write failed
C9_Witness ==
    /\ _citekeys # None
    /\ last.op = "push_paper" /\ last.exc = "IOError"
    /\ bib[last.k] # None /\ meta[last.k] = None
    /\ \E j \in Keys \ {last.k} : Get(_citekeys) = {j}

\* C10 (as claimed): push_paper of a paper with a malformed citekey, and
\* rename_paper to a malformed citekey, fail with InvalidCitekey having
\* changed no bibdata, metadata, document or note file, nor the index.
C10_MalformedBeforeIO ==
    [][(last'.op \in {"push_paper", "rename_paper"} /\ ~CheckCitekey(last'.k)) =>
            /\ last'.exc = "InvalidCitekey"
            /\ bib' = bib /\ meta' = meta /\ docs' = docs /\ notes' = notes
            /\ Index(Here)' = Index(Here)]_vars


\* C11: get_tags returns the union of the tag sets of the papers whose
\* citekeys are in the index ({a,b,c} for papers tagged {a,b}, {b,c} and {},
\* the empty set for an empty repository), raises nothing, and leaves the
\* index and the store as they were.
C11_GetTags ==
    LET r == get_tags(Here)
        tagsets == {Get(meta[k]).tags : k \in Index(Here)}
    IN  /\ r.exc = "none"
        /\ r.ret = Some(UNION tagsets)
        /\ Index(Here) = {} => r.ret = Some({})
        /\ (Cardinality(Index(Here)) = 3 /\ tagsets = {{"a", "b"}, {"b", "c"}, {}}) =>
              r.ret = Some({"a", "b", "c"})
        /\ r.s.bib = bib /\ r.s.meta = meta /\ r.s.docs = docs /\ r.s.notes = notes
        /\ Index(r.s) = Index(Here)
        /\ last.op = "get_tags" => last.ret = r.ret

C11_Witness ==
    /\ last.op = "get_tags" /\ last.exc = "none"
    /\ last.ret = Some({"a", "b", "c"})
    /\ Cardinality(Index(Here)) = 3
    /\ {Get(meta[k]).tags : k \in Index(Here)} = {{"a", "b"}, {"b", "c"}, {}}

\* C12 (as claimed): a rename_paper to a different citekey that returns has
\* deleted no document file and no note file: every document and note that
\* existed before it exists afterwards, under its name or under the new
\* citekey's.
C12_RenameDeletesNothing ==
    [][(last'.op = "rename_paper" /\ last'.k # last'.k2 /\ last'.exc = "none") =>
            /\ \A d \in docs :
                  \/ d \in docs'
                  \/ d = DocPath(last'.k2) /\ DocPath(last'.k) \in docs'
            /\ \A n \in notes :
                  \/ n \in notes'
                  \/ n = last'.k2 /\ last'.k \in notes']_vars

\* the positions of the steps of a course tr that are of the kind what
Positions(tr, what) == {i \in 1..Len(tr) : tr[i].what = what}

\* C13: remove_paper with event=true sends the Remove notification first:
\* the listeners see the store and the index as they were before the call,
\* so a stored paper can still be pulled, and every deletion and the removal
\* from the index come later; with event=false nothing is sent.  The course
\* ends in the state and with the events remove_paper returns.
C13_RemoveEventFirst ==
    \A k \in Keys, remove_doc \in BOOLEAN, event \in BOOLEAN,
       io \in {"ok", "meta_read", "doc_rm", "note_rm"} :
        LET tr == remove_steps(Here, k, remove_doc, event, io)
            r == remove_paper(Here, k, remove_doc, event, io)
            sends == Positions(tr, "send Remove")
        IN  /\ After(Here, tr) = r.s
            /\ Len(r.evs) = Cardinality(sends)
            /\ (r.exc = "KeyError") = (Positions(tr, "KeyError") # {})
            /\ event =>
                  /\ sends = {1}
                  /\ r.evs = <<RemoveEvent(k)>>
                  /\ tr[1].s = Here
                  /\ Stored(Here, k) => pull_paper(tr[1].s, k).exc = "none"
                  /\ \A i \in 2..Len(tr) :
                        tr[i].what \in {"remove_doc", "remove_note", "citekeys.remove",
                                        "remove", "KeyError"}
            /\ ~event => sends = {} /\ r.evs = <<>>

C13_Witness ==
    /\ last.op = "remove_paper" /\ last.exc = "none" /\ last.pre
    /\ last.evs = <<RemoveEvent(last.k)>>
    /\ ~Stored(Here, last.k)
    /\ last.k \notin notes
    /\ docs = {}

\* the added timestamp the store holds for the citekey
StoredAdded(s, citekey) == Get(s.meta[citekey]).added

\* C14: push_paper stamps paper.added with the current time only when the
\* paper has none; the timestamp stored for a paper is not changed by a
\* later push_paper(overwrite=true), rename_paper or push_doc of it, whether
\* the call returns or fails.
C14_AddedStampedOnce ==
    /\ \A paper \in Papers, overwrite \in BOOLEAN, event \in BOOLEAN :
          LET k == paper.citekey
              r == push_paper(Here, paper, overwrite, event, Now, "ok")
          IN  r.exc = "none" =>
                 /\ Get(r.paper).metadata.added = StoredAdded(r.s, k)
                 /\ StoredAdded(r.s, k) =
                       IF paper.metadata.added = None THEN Some(Now)
                       ELSE paper.metadata.added
    /\ \A paper \in PulledPapers(Here), io \in {"ok", "meta_write", "note_mv"} :
          LET k == paper.citekey
              before == StoredAdded(Here, k)
              pushed == push_paper(Here, paper, TRUE, FALSE, Now, io)
          IN  /\ before # None
              /\ pushed.s.meta[k] # None /\ StoredAdded(pushed.s, k) = before
              /\ \A copy \in BOOLEAN :
                    LET r == push_doc(Here, k, ExtDoc, copy, Now, io)
                    IN  r.s.meta[k] # None /\ StoredAdded(r.s, k) = before
              /\ \A new \in {Some(j) : j \in AllKeys} \cup {None} :
                    LET r == rename_paper(Here, paper, new, Some(k), Now, io)
                        n == IF new = None THEN k ELSE Get(new)
                    IN  /\ r.exc = "none" => r.s.meta[n] # None /\ StoredAdded(r.s, n) = before
                        /\ r.exc # "none" => r.s.meta[k] # None /\ StoredAdded(r.s, k) = before

\* a document attached to a paper stamped at an earlier time
C14_Witness ==
    /\ last.op = "push_doc" /\ last.exc = "none"
    /\ Get(meta[last.k]).docfile # None
    /\ Get(StoredAdded(Here, last.k)) < steps

\* C15: rename_paper with old_citekey equal to new_citekey does what
\* push_paper(paper, overwrite=true, event=false) does for the paper under
\* that citekey: the same index and store, the same result; it raises no
\* CiteKeyCollision, renames and deletes no document and no note, and emits
\* no event.
C15_RenameSameKeyIsPush ==
    \A paper \in Papers, key \in {Some(k) : k \in AllKeys} \cup {None},
       io \in {"ok", "meta_write"} :
        LET same == IF key = None THEN paper.citekey ELSE Get(key)
            r == rename_paper(Here, paper, key, key, Now, io)
            p == push_paper(Here, [paper EXCEPT !.citekey = same], TRUE, FALSE, Now, io)
        IN  /\ r.s = p.s
            /\ r.exc = p.exc
            /\ r.paper = p.paper
            /\ r.exc # "CiteKeyCollision"
            /\ r.s.docs = docs /\ r.s.notes = notes
            /\ r.evs = <<>> /\ p.evs = <<>>
            /\ r.exc = "none" =>
                  /\ same \in Index(r.s)
                  /\ Index(r.s) = Index(Here) \cup {same}
                  /\ r.s.bib[same] = Some(paper.bibdata)
                  /\ r.s.meta[same] # None
                  /\ \A j \in AllKeys \ {same} :
                        r.s.bib[j] = bib[j] /\ r.s.meta[j] = meta[j]

\* a stored paper with a managed document and a note, renamed to its own
\* citekey
C15_Witness ==
    /\ last.op = "rename_paper" /\ last.k = last.k2 /\ last.exc = "none" /\ last.pre
    /\ last.evs = <<>>
    /\ Stored(Here, last.k)
    /\ last.k \in notes
    /\ Get(meta[last.k]).docfile = Some(DocPath(last.k))
    /\ DocPath(last.k) \in docs

\* C16: in every state rename_paper goes through from a stored citekey old
\* to a different citekey new that is not in the repository, the store holds
\* both the bibdata and the metadata of old or of new; from the addition of
\* new to the index until the removal of old's files it holds both papers.
\* The course ends in the state rename_paper returns, and so does a
\* program that dies in between.
C16_RenamePreservesData ==
    /\ \A paper \in PulledPapers(Here), new \in AllKeys, io \in {"ok", "meta_write", "note_mv"} :
          LET old == paper.citekey
              tr == rename_steps(Here, paper, Some(new), Some(old), Now, io)
              r == rename_paper(Here, paper, Some(new), Some(old), Now, io)
              pushed == Positions(tr, "citekeys.add")
              removed == Positions(tr, "remove")
          IN  (new # old /\ ~InRepo(Here, new)) =>
                 /\ After(Here, tr) = r.s
                 /\ (r.exc # "none") = Raised(tr)
                 /\ Len(r.evs) = Cardinality(Positions(tr, "send Rename"))
                 /\ \A i \in 1..Len(tr) :
                       /\ Stored(tr[i].s, old) \/ Stored(tr[i].s, new)
                       /\ ((\E j \in pushed : j <= i) /\ (\A j \in removed : i < j)) =>
                             Stored(tr[i].s, old) /\ Stored(tr[i].s, new)
                 /\ r.exc = "none" => pushed # {} /\ removed # {}
                 /\ \A j \in pushed, l \in removed : j < l
    /\ last.op = "crash" => Stored(Here, last.k) \/ Stored(Here, last.k2)

\* the program died after the push at new and before the removal of old:
\* the paper is stored under both citekeys
C16_Witness ==
    /\ last.op = "crash"
    /\ Stored(Here, last.k) /\ Stored(Here, last.k2)
    /\ bib[last.k] = bib[last.k2]

C18_HalfWrittenPush ==
    \A paper \in Papers, overwrite \in BOOLEAN, event \in BOOLEAN :
        LET k == paper.citekey
            tr == push_steps(Here, paper, overwrite, event, Now, "ok")
            ok == push_paper(Here, paper, overwrite, event, Now, "ok")
            ftr == push_steps(Here, paper, overwrite, event, Now, "meta_write")
            f == push_paper(Here, paper, overwrite, event, Now, "meta_write")
        IN  (CheckCitekey(k) /\ ~Collides(Here, k, overwrite)) =>
               /\ After(Here, tr) = ok.s /\ ok.exc = "none"
               /\ Positions(tr, "push_bibdata") = {1}
               /\ Positions(tr, "push_metadata") = {2}
               /\ Positions(tr, "citekeys.add") = {3}
               /\ tr[1].s.meta[k] = meta[k]
               /\ tr[2].s.idx = tr[1].s.idx
               /\ tr[1].s.idx # None => Get(tr[1].s.idx) = Index(Here)
               /\ After(Here, ftr) = f.s /\ Raised(ftr)
               /\ f.exc = "IOError"
               /\ f.evs = <<>>
               /\ f.s.bib[k] = Some(paper.bibdata)
               /\ f.s.meta[k] = meta[k]
               /\ Index(f.s) = Index(Here)
               /\ meta[k] = None =>
                     /\ k \notin Index(f.s)
                     /\ pull_paper(f.s, k).exc = "InvalidReference"
                     /\ \A again \in Papers, ev \in BOOLEAN, io \in {"ok", "meta_write"} :
                           again.citekey = k =>
                              push_paper(f.s, again, FALSE, ev, Now, io).exc = "CiteKeyCollision"

\* the second push of a citekey whose first push wrote the bibdata alone
C18_Witness ==
    /\ last.op = "push_paper" /\ last.exc = "CiteKeyCollision" /\ last.pre
    /\ bib[last.k] # None /\ meta[last.k] = None
    /\ last.k \notin Index(Here)
    /\ pull_paper(Here, last.k).exc = "InvalidReference"

\* C19: unique_citekey returns after testing at most (size of the index + 1)
\* candidate keys, all but the last of them in the index; it leaves the
\* citekeys of the index and the store as they were, so a second call with
\* the same base_key returns the same key.
C19_UniqueTerminatesNoReserve ==
    \A base_key \in {KeyS, KeyT} :
        LET r == unique_citekey(Here, base_key)
            again == unique_citekey(r.s, base_key)
            tested == candidates_from(Here, base_key, 0)
        IN  /\ r.exc = "none"
            /\ tested <= Cardinality(Index(Here)) + 1
            /\ r.ret = Some(base_key \o _base27(tested - 1))
            /\ \A n \in 0..(tested - 2) : base_key \o _base27(n) \in Index(Here)
            /\ Cardinality({base_key \o _base27(n) : n \in 0..(tested - 1)}) = tested
            /\ Index(r.s) = Index(Here)
            /\ Get(r.ret) \notin Index(r.s)
            /\ r.s.bib = bib /\ r.s.meta = meta /\ r.s.docs = docs /\ r.s.notes = notes
            /\ again.ret = r.ret
            /\ again.s = r.s
            /\ (last.op = "unique_citekey" /\ last.k = base_key) => r.ret = last.ret

\* the worst case: every candidate before the one returned is in the index,
\* one more candidate tested than the index has keys
C19_Witness ==
    /\ last.op = "unique_citekey" /\ last.k = KeyS
    /\ Cardinality(Index(Here)) > Letters
    /\ candidates_from(Here, KeyS, 0) = Cardinality(Index(Here)) + 1
    /\ Get(last.ret) = KeyS \o _base27(Cardinality(Index(Here)))

\* C20: push_doc of a citekey whose bibdata or metadata is missing fails
\* with InvalidReference and leaves the index and the store, the documents
\* included, as they were.  Of a citekey that can be pulled it changes the
\* docfile in that paper's metadata and adds the copied document, nothing
\* else: the citekeys of the index are the same, it raises no
\* CiteKeyCollision and emits no event.
C20_PushDoc ==
    \A k \in AllKeys, copy \in BOOLEAN, io \in {"ok", "meta_write"} :
        LET r == push_doc(Here, k, ExtDoc, copy, Now, io)
            path == IF copy THEN DocPath(k) ELSE ExtDoc
        IN  /\ ~Exists(Here, k, TRUE) =>
                  /\ r.exc = "InvalidReference"
                  /\ r.s = Here
                  /\ r.evs = <<>>
            /\ Exists(Here, k, TRUE) =>
                  /\ r.exc \in {"none", "IOError"}
                  /\ r.evs = <<>>
                  /\ Index(r.s) = Index(Here)
                  /\ r.s.bib = bib
                  /\ r.s.notes = notes
                  /\ \A j \in AllKeys \ {k} : r.s.meta[j] = meta[j]
                  /\ r.s.docs \in {docs, docs \cup {DocPath(k)}}
                  /\ ~copy => r.s.docs = docs
                  /\ r.exc = "IOError" => r.s.meta = meta
                  /\ r.exc = "none" =>
                        /\ r.s.meta[k] = Some([Get(meta[k]) EXCEPT !.docfile = Some(path)])
                        /\ copy => path \in r.s.docs

\* a document copied to a stored paper, next to a citekey that cannot be
\* pulled
C20_Witness ==
    /\ last.op = "push_doc" /\ last.exc = "none"
    /\ Get(meta[last.k]).docfile = Some(DocPath(last.k))
    /\ DocPath(last.k) \in docs
    /\ last.k \in Index(Here)
    /\ \E j \in Keys \ {last.k} :
          /\ bib[j] # None /\ meta[j] = None
          /\ push_doc(Here, j, ExtDoc, TRUE, Now, "ok").exc = "InvalidReference"

====
